---------------------------- MODULE Spec2Model ----------------------------
(***************************************************************************)
(* Model of firmware_v1_alpha.py: two multiplexer banks scanned by a       *)
(* periodic timer callback (retrieve_data, the Sampler) that appends       *)
(* calibrated samples to the global list `data`, and a worker thread       *)
(* running publish_data in a loop (the Publisher) that takes the list and  *)
(* sends it over a websocket, reconnecting when the send raises.           *)
(*                                                                         *)
(* The two contexts share `data` and `iteration_done` without a lock, so   *)
(* every statement of retrieve_data and publish_data is its own step and   *)
(* the steps of the two interleave freely.  Python lists are objects: the  *)
(* model keeps a small heap of list objects and `data`, `temp` and the     *)
(* Sampler's loaded reference are references into it.                      *)
(*                                                                         *)
(* A sample is identified by the number of the tick that produced it; its  *)
(* 22 converted values are not carried through the buffer.                 *)
(***************************************************************************)
EXTENDS Integers, Sequences, FiniteSets, TLC

VARIABLES
    mpc,             \* position of main()
    token,           \* global token
    zero_pos,        \* global zero_pos: <<>> until calibrate() fills it
    ws,              \* global ws: "None", or a socket that is "open" or "broken"
    heap,            \* list objects: object id -> contents
    data,            \* global data: reference to a list object
    iteration_done,  \* global iteration_done
    spc,             \* position of the timer callback retrieve_data()
    sref,            \* the list retrieve_data loaded for data.append, 0 = none
    ticks,           \* number of timer ticks started so far
    ppc,             \* position of the publisher task
    temp,            \* publish_data's local temp, 0 = unbound
    pins,            \* select-line levels of each bank
    lastSel,         \* the last map_nibble_to_pins call and its outcome
    sent,            \* history: every ws.send attempt, in order
    pushed,          \* history: samples appended by retrieve_data
    discarded,       \* history: samples dropped by the overflow reset
    pendingFail,     \* history: a send raised and connect_websocket was not called since
    lastPushLen,     \* history: length of the list after the current tick's append
    lastRaw,         \* the last retrieve_data_raw result: where each reading was taken
    conv,            \* the last convert_retrieved_data call: its argument and outcome
    zraw,            \* history: the raw vector calibrate() captured
    hist             \* whether sent, pushed, discarded and ticks are recorded

vars == <<mpc, token, zero_pos, ws, heap, data, iteration_done, spc, sref, ticks,
          ppc, temp, pins, lastSel, sent, pushed, discarded, pendingFail, lastPushLen,
          lastRaw, conv, zraw, hist>>

coreVars == <<mpc, token, zero_pos, ws, heap, data, iteration_done, spc, sref, ticks,
              ppc, temp, sent, pushed, discarded, pendingFail, lastPushLen, conv,
              zraw, hist>>

--------------------------------------------------------------------------
(* Bounds of the model *)

MaxTicks == 12

MaxObjs == 3

MaxIndex == 17

MaxSlope == 3

(* Program constants *)

BufferBound == 10

MinCount == 3

NumChannels == 22

NibbleMax == 15

mdof == 340

AdcMax == 4095

Tokens == {"tok"}

ADCLevels == {0, 100}

Banks == {1, 2}

\* multi1 has four select pins and 16 channels, multi2 three pins and 6 channels
len_pins == <<4, 3>>

a_channels == <<16, 6>>

--------------------------------------------------------------------------
(* Multiplexer *)

Bit(n, i) == (n \div (2 ^ i)) % 2

\* a faulty loop: the first pin gets the highest bit
SetPinsMsbFirst(k, nibble) == [i \in 1..k |-> Bit(nibble, k - i)]

\* the loop of map_nibble_to_pins: pin i gets bit 0 of the nibble, which is
\* then shifted right by one
SetPins(k, nibble) == [i \in 1..k |-> Bit(nibble, i - 1)]

\* the guard of map_nibble_to_pins
NibbleRejected(k, nibble) == nibble > NibbleMax

\* map_nibble_to_pins on a bank with pin levels p: the new levels, or the
\* old ones when ValueError is raised before the loop
map_nibble_to_pins(p, nibble) ==
    IF NibbleRejected(Len(p), nibble) THEN p ELSE SetPins(Len(p), nibble)

\* the element of a one-element set; binding a value through it evaluates
\* the value once
Only(S) == CHOOSE x \in S : TRUE

\* the value the select lines encode: first line = bit 0
RECURSIVE LineValue(_)
LineValue(p) ==
    IF p = <<>> THEN 0 ELSE p[1] + 2 * LineValue(Tail(p))

\* read_all: selects channels 0 .. a_channels-1 in turn; the pins are left
\* at the last channel
RECURSIVE ScanPins(_, _, _)
ScanPins(p, i, n) ==
    IF i >= n THEN p
    ELSE Only({ScanPins(q, i + 1, n) : q \in {map_nibble_to_pins(p, i)}})

read_all_pins(b, p) == ScanPins(p, 0, a_channels[b])

\* retrieve_data_raw: read_all on multi1, then on multi2
ScannedPins == [b \in Banks |-> read_all_pins(b, pins[b])]

ScannedSel == [bank |-> 2, nibble |-> a_channels[2] - 1, raised |-> FALSE,
               before |-> SetPins(len_pins[2], a_channels[2] - 2)]

\* a_readable.read() on bank b: the reading comes from the channel the select
\* lines q encode at that moment
Reading(b, q) == [bank |-> b, chan |-> LineValue(q)]

RECURSIVE ReadAll(_, _, _, _)

\* the body of read_all's loop once channel i is selected (lines at q): read,
\* append, go on with channel i + 1
ReadAppend(b, q, i, res) == ReadAll(b, q, i + 1, Append(res, Reading(b, q)))

\* the loop of read_all from channel i on
ReadAll(b, p, i, res) ==
    IF i >= a_channels[b] THEN res
    ELSE Only({ReadAppend(b, q, i, res) : q \in {map_nibble_to_pins(p, i)}})

\* a faulty read_all: range(1, a_channels)
read_allFromOne(b, p) == ReadAll(b, p, 1, <<>>)

\* read_all: the readings of channels 0 .. a_channels-1
read_all(b, p) == ReadAll(b, p, 0, <<>>)

\* retrieve_data_raw: the readings of multi1 followed by those of multi2
retrieve_data_raw(pp) == read_all(1, pp[1]) \o read_all(2, pp[2])

--------------------------------------------------------------------------
(* Calibration *)

\* a faulty calibrate: the zero capture is stored unscaled
ScaledZeroMissing(raw) == [i \in 1..Len(raw) |-> raw[i] * AdcMax]

\* calibrate: zero_pos[i] = raw[i] * f_rc; f_rc = mdof / 4095 and values are
\* kept exactly, as numerators over 4095
ScaledZero(raw) == [i \in 1..Len(raw) |-> raw[i] * mdof]

\* convert_retrieved_data: the first 22 entries of the list are overwritten
\* in place; indexing raises IndexError when the list or zero_pos is shorter
\* than 22
convert_retrieved_data(raw, zp) ==
    IF Len(zp) < NumChannels \/ Len(raw) < NumChannels
    THEN [raised |-> TRUE, out |-> <<>>]
    ELSE [raised |-> FALSE,
          out |-> [i \in 1..Len(raw) |-> IF i <= NumChannels
                                         THEN raw[i] * mdof - zp[i]
                                         ELSE raw[i] * AdcMax]]

\* the values read at the places tags, all at the same level
Readings(tags, level) == [i \in 1..Len(tags) |-> level]

\* one reading per scanned channel, all at the same level
UniformRaw(level) == Readings(retrieve_data_raw(pins), level)

\* raw vectors: a base level plus a slope per channel, within 12 bits
RawInputs ==
    {[i \in 1..a_channels[1] + a_channels[2] |-> (a + b * i) % (AdcMax + 1)] :
        a \in ADCLevels \cup {AdcMax}, b \in 0..MaxSlope}

--------------------------------------------------------------------------
(* List objects *)

ObjIds == 1..MaxObjs

Live(d, t, s) == {d, t, s} \ {0}

NewList(d, t, s) ==
    CHOOSE o \in ObjIds : o \notin Live(d, t, s)
                          /\ \A q \in ObjIds : q \notin Live(d, t, s) => o <= q

\* unreferenced lists are garbage
Collect(h, d, t, s) == [o \in ObjIds |-> IF o \in Live(d, t, s) THEN h[o] ELSE <<>>]

Elems(s) == {s[i] : i \in 1..Len(s)}

\* the history variables grow with every tick and every send; they are only
\* kept while hist is set
Logged(log, entry) == IF hist THEN Append(log, entry) ELSE log

Noted(set, more) == IF hist THEN set \cup more ELSE set

\* no convert_retrieved_data result is held
NoCall == [raw |-> <<>>, raised |-> FALSE, out |-> <<>>]

--------------------------------------------------------------------------
\* the module globals when main() is entered; h tells whether the history
\* variables are kept
Start(h) ==
    /\ mpc = "configure"
    /\ token = ""
    /\ zero_pos = <<>>
    /\ ws = "None"
    /\ heap = [o \in ObjIds |-> <<>>]
    /\ data = 1
    /\ iteration_done = FALSE
    /\ spc = "idle"
    /\ sref = 0
    /\ ticks = 0
    /\ ppc = "flag"
    /\ temp = 0
    /\ pins = [b \in Banks |-> [i \in 1..len_pins[b] |-> 0]]
    /\ lastSel = [bank |-> 0, nibble |-> 0, raised |-> FALSE, before |-> <<>>]
    /\ sent = <<>>
    /\ pushed = {}
    /\ discarded = {}
    /\ pendingFail = FALSE
    /\ lastPushLen = 0
    /\ lastRaw = <<>>
    /\ conv = NoCall
    /\ zraw = <<>>
    /\ hist = h

Init == Start(TRUE)

--------------------------------------------------------------------------
(* main(): configuration, calibration, first connect, then the timer and the
   publisher thread are started *)

\* a faulty main: the timer is started before calibrate
TimerRunningEarly == mpc # "configure"

\* the timer callback can fire once timer.init has run
TimerRunning == mpc \in {"start_thread", "done"}

\* the publisher task runs once the thread has been started
ThreadRunning == mpc = "done"

\* connect_websocket: ws is rebound on success and left as it was on failure
ConnectOutcomes(w) == {"open", w}

M_Configure ==
    /\ mpc = "configure"
    /\ token' \in Tokens
    /\ mpc' = "calibrate"
    /\ UNCHANGED <<zero_pos, ws, heap, data, iteration_done, spc, sref, ticks, ppc,
                   temp, pins, lastSel, sent, pushed, discarded, pendingFail,
                   lastPushLen,
                   lastRaw, conv, zraw, hist>>

M_Calibrate ==
    /\ mpc = "calibrate"
    /\ \E tags \in {retrieve_data_raw(pins)}, level \in ADCLevels :
          /\ lastRaw' = tags
          /\ zraw' = Readings(tags, level)
          /\ zero_pos' = ScaledZero(Readings(tags, level))
    /\ pins' = ScannedPins
    /\ lastSel' = ScannedSel
    /\ mpc' = "connect"
    /\ UNCHANGED <<token, ws, heap, data, iteration_done, spc, sref, ticks, ppc,
                   temp, sent, pushed, discarded, pendingFail, lastPushLen,
                   conv, hist>>

M_Connect ==
    /\ mpc = "connect"
    /\ ws' \in ConnectOutcomes(ws)
    /\ mpc' = "start_timer"
    /\ UNCHANGED <<token, zero_pos, heap, data, iteration_done, spc, sref, ticks,
                   ppc, temp, pins, lastSel, sent, pushed, discarded, pendingFail,
                   lastPushLen,
                   lastRaw, conv, zraw, hist>>

M_StartTimer ==
    /\ mpc = "start_timer"
    /\ mpc' = "start_thread"
    /\ UNCHANGED <<token, zero_pos, ws, heap, data, iteration_done, spc, sref,
                   ticks, ppc, temp, pins, lastSel, sent, pushed, discarded,
                   pendingFail, lastPushLen,
                   lastRaw, conv, zraw, hist>>

M_StartThread ==
    /\ mpc = "start_thread"
    /\ mpc' = "done"
    /\ UNCHANGED <<token, zero_pos, ws, heap, data, iteration_done, spc, sref,
                   ticks, ppc, temp, pins, lastSel, sent, pushed, discarded,
                   pendingFail, lastPushLen,
                   lastRaw, conv, zraw, hist>>

--------------------------------------------------------------------------
(* retrieve_data(): the timer callback, one step per statement *)

\* iteration_done = False
S_Tick ==
    /\ TimerRunning
    /\ spc = "idle"
    /\ hist => ticks < MaxTicks
    /\ ticks' = IF hist THEN ticks + 1 ELSE ticks
    /\ iteration_done' = FALSE
    /\ lastPushLen' = 0
    /\ spc' = "load"
    /\ UNCHANGED <<mpc, token, zero_pos, ws, heap, data, sref, ppc, temp, pins,
                   lastSel, sent, pushed, discarded, pendingFail,
                   lastRaw, conv, zraw, hist>>

\* data.append is looked up before its argument is evaluated
S_Load ==
    /\ spc = "load"
    /\ sref' = data
    /\ spc' = "scan"
    /\ UNCHANGED <<mpc, token, zero_pos, ws, heap, data, iteration_done, ticks, ppc,
                   temp, pins, lastSel, sent, pushed, discarded, pendingFail,
                   lastPushLen,
                   lastRaw, conv, zraw, hist>>

\* a faulty transform: the converted values are written into zero_pos
ZeroAfterAliased(zp, c) == IF c.raised THEN zp ELSE c.out

\* zero_pos after convert_retrieved_data returned c: the loop only reads it
ZeroAfter(zp, c) == zp

\* convert_retrieved_data(adc_iter.retrieve_data_raw()); an IndexError leaves
\* the callback without appending
S_Scan ==
    /\ spc = "scan"
    /\ pins' = ScannedPins
    /\ lastSel' = ScannedSel
    /\ \E tags \in {retrieve_data_raw(pins)}, level \in ADCLevels :
          \E c \in {convert_retrieved_data(Readings(tags, level), zero_pos)} :
             /\ lastRaw' = tags
             /\ conv' = [raw |-> Readings(tags, level), raised |-> c.raised,
                         out |-> c.out]
             /\ zero_pos' = ZeroAfter(zero_pos, c)
             /\ IF c.raised
                THEN /\ spc' = "idle"
                     /\ sref' = 0
                     /\ heap' = Collect(heap, data, temp, 0)
                ELSE /\ spc' = "append"
                     /\ UNCHANGED <<sref, heap>>
    /\ UNCHANGED <<mpc, token, ws, data, iteration_done, ticks, ppc, temp,
                   sent, pushed, discarded, pendingFail, lastPushLen, zraw, hist>>

\* the value appended: the converted list, named by the tick that made it
Sample == [id |-> IF hist THEN ticks ELSE 0, n |-> Len(conv.out)]

\* a faulty append: data.insert(0, ...)
PushedFront(list, x) == <<x>> \o list

\* list.append
Pushed(list, x) == Append(list, x)

\* a faulty append: it waits while the Publisher is between its length check
\* and its clear
S_AppendLocked ==
    /\ spc = "append"
    /\ ppc \notin {"take", "clear"}
    /\ heap' = Collect([heap EXCEPT ![sref] = Pushed(@, Sample)], data, temp, 0)
    /\ lastPushLen' = Len(heap[sref]) + 1
    /\ pushed' = Noted(pushed, {Sample})
    /\ conv' = NoCall
    /\ sref' = 0
    /\ spc' = "setflag"
    /\ UNCHANGED <<mpc, token, zero_pos, ws, data, iteration_done, ticks, ppc, temp,
                   pins, lastSel, sent, discarded, pendingFail,
                   lastRaw, zraw, hist>>

\* the append itself, on the list loaded by S_Load
S_Append ==
    /\ spc = "append"
    /\ heap' = Collect([heap EXCEPT ![sref] = Pushed(@, Sample)], data, temp, 0)
    /\ lastPushLen' = Len(heap[sref]) + 1
    /\ pushed' = Noted(pushed, {Sample})
    /\ conv' = NoCall
    /\ sref' = 0
    /\ spc' = "setflag"
    /\ UNCHANGED <<mpc, token, zero_pos, ws, data, iteration_done, ticks, ppc, temp,
                   pins, lastSel, sent, discarded, pendingFail,
                   lastRaw, zraw, hist>>

\* iteration_done = True
S_SetFlag ==
    /\ spc = "setflag"
    /\ iteration_done' = TRUE
    /\ spc' = "check"
    /\ UNCHANGED <<mpc, token, zero_pos, ws, heap, data, sref, ticks, ppc, temp,
                   pins, lastSel, sent, pushed, discarded, pendingFail, lastPushLen,
                   lastRaw, conv, zraw, hist>>

\* a faulty bound check: off by one
OverflowedLate(buf) == Len(buf) > BufferBound + 1

\* len(data) > 10
Overflowed(buf) == Len(buf) > BufferBound

S_Check ==
    /\ spc = "check"
    /\ spc' = IF Overflowed(heap[data]) THEN "reset" ELSE "idle"
    /\ UNCHANGED <<mpc, token, zero_pos, ws, heap, data, iteration_done, sref,
                   ticks, ppc, temp, pins, lastSel, sent, pushed, discarded,
                   pendingFail, lastPushLen,
                   lastRaw, conv, zraw, hist>>

\* data = []
S_Reset ==
    /\ spc = "reset"
    /\ data' = NewList(data, temp, sref)
    /\ heap' = Collect(heap, data', temp, sref)
    /\ discarded' = Noted(discarded, Elems(heap[data]))
    /\ spc' = "idle"
    /\ UNCHANGED <<mpc, token, zero_pos, ws, iteration_done, sref, ticks, ppc, temp,
                   pins, lastSel, sent, pushed, pendingFail, lastPushLen,
                   lastRaw, conv, zraw, hist>>

--------------------------------------------------------------------------
(* publish_data() inside async_data_publishing()'s endless loop *)

\* while not iteration_done ...: await sleep
P_Flag ==
    /\ ThreadRunning
    /\ ppc = "flag"
    /\ ppc' = IF iteration_done THEN "len" ELSE "flag"
    /\ UNCHANGED <<mpc, token, zero_pos, ws, heap, data, iteration_done, spc, sref,
                   ticks, temp, pins, lastSel, sent, pushed, discarded, pendingFail,
                   lastPushLen,
                   lastRaw, conv, zraw, hist>>

\* a faulty poll: a buffer found too short is thrown away
P_LenClears ==
    /\ ppc = "len"
    /\ ppc' = IF Len(heap[data]) < MinCount THEN "flag" ELSE "take"
    /\ data' = IF Len(heap[data]) < MinCount THEN NewList(data, temp, sref) ELSE data
    /\ heap' = Collect(heap, data', temp, sref)
    /\ UNCHANGED <<mpc, token, zero_pos, ws, iteration_done, spc, sref,
                   ticks, temp, pins, lastSel, sent, pushed, discarded, pendingFail,
                   lastPushLen,
                   lastRaw, conv, zraw, hist>>

\* a faulty poll: the length test never lets the Publisher through
P_LenNeverPasses ==
    /\ ppc = "len"
    /\ ppc' = "flag"
    /\ UNCHANGED <<mpc, token, zero_pos, ws, heap, data, iteration_done, spc, sref,
                   ticks, temp, pins, lastSel, sent, pushed, discarded, pendingFail,
                   lastPushLen,
                   lastRaw, conv, zraw, hist>>

\* ... or len(data) < 3: await sleep
P_Len ==
    /\ ppc = "len"
    /\ ppc' = IF Len(heap[data]) < MinCount THEN "flag" ELSE "take"
    /\ UNCHANGED <<mpc, token, zero_pos, ws, heap, data, iteration_done, spc, sref,
                   ticks, temp, pins, lastSel, sent, pushed, discarded, pendingFail,
                   lastPushLen,
                   lastRaw, conv, zraw, hist>>

\* temp = data
P_Take ==
    /\ ppc = "take"
    /\ temp' = data
    /\ ppc' = "clear"
    /\ UNCHANGED <<mpc, token, zero_pos, ws, heap, data, iteration_done, spc, sref,
                   ticks, pins, lastSel, sent, pushed, discarded, pendingFail,
                   lastPushLen,
                   lastRaw, conv, zraw, hist>>

\* a faulty drain: data is not rebound
P_ClearMissing ==
    /\ ppc = "clear"
    /\ ppc' = "send"
    /\ UNCHANGED <<mpc, token, zero_pos, ws, heap, data, iteration_done, spc, sref,
                   ticks, temp, pins, lastSel, sent, pushed, discarded, pendingFail,
                   lastPushLen,
                   lastRaw, conv, zraw, hist>>

\* data = []
P_Clear ==
    /\ ppc = "clear"
    /\ data' = NewList(data, temp, sref)
    /\ heap' = Collect(heap, data', temp, sref)
    /\ ppc' = "send"
    /\ UNCHANGED <<mpc, token, zero_pos, ws, iteration_done, spc, sref, ticks, temp,
                   pins, lastSel, sent, pushed, discarded, pendingFail, lastPushLen,
                   lastRaw, conv, zraw, hist>>

\* a faulty message: str(temp), without the token
MessageWithoutToken(w, ok) == [tok |-> "", batch |-> heap[temp], via |-> w, ok |-> ok]

\* the message: str([token, temp]), built from the list as it is now
Message(w, ok) == [tok |-> token, batch |-> heap[temp], via |-> w, ok |-> ok]

\* ws.send(...) returns: publish_data returns and the loop calls it again
P_SendOk ==
    /\ ppc = "send"
    /\ ws = "open"
    /\ sent' = Logged(sent, Message(ws, TRUE))
    /\ temp' = 0
    /\ heap' = Collect(heap, data, 0, sref)
    /\ ppc' = "flag"
    /\ UNCHANGED <<mpc, token, zero_pos, ws, data, iteration_done, spc, sref, ticks,
                   pins, lastSel, pushed, discarded, pendingFail, lastPushLen,
                   lastRaw, conv, zraw, hist>>

\* a faulty handler: except: pass
ExceptSkipsReconnect == "flag"

\* a faulty handler: the exception leaves publish_data and ends the task
ExceptEscapes == "stopped"

\* where the bare except: of publish_data continues
ExceptTarget == "reconnect"

\* ws.send(...) raises: ws is None (AttributeError), the socket is already
\* broken, or the transport fails during this send
P_SendFail ==
    /\ ppc = "send"
    /\ sent' = Logged(sent, Message(ws, FALSE))
    /\ ws' = IF ws = "open" THEN "broken" ELSE ws
    /\ pendingFail' = TRUE
    /\ ppc' = ExceptTarget
    /\ temp' = IF ExceptTarget = "reconnect" THEN temp ELSE 0
    /\ heap' = Collect(heap, data, temp', sref)
    /\ UNCHANGED <<mpc, token, zero_pos, data, iteration_done, spc, sref, ticks,
                   pins, lastSel, pushed, discarded, lastPushLen,
                   lastRaw, conv, zraw, hist>>

\* except: connect_websocket()
P_Reconnect ==
    /\ ppc = "reconnect"
    /\ ws' \in ConnectOutcomes(ws)
    /\ pendingFail' = FALSE
    /\ temp' = 0
    /\ heap' = Collect(heap, data, 0, sref)
    /\ ppc' = "flag"
    /\ UNCHANGED <<mpc, token, zero_pos, data, iteration_done, spc, sref, ticks,
                   pins, lastSel, sent, pushed, discarded, lastPushLen,
                   lastRaw, conv, zraw, hist>>

--------------------------------------------------------------------------
Next ==
    \/ M_Configure \/ M_Calibrate \/ M_Connect \/ M_StartTimer \/ M_StartThread
    \/ S_Tick \/ S_Load \/ S_Scan \/ S_Append \/ S_SetFlag \/ S_Check \/ S_Reset
    \/ P_Flag \/ P_Len \/ P_Take \/ P_Clear \/ P_SendOk \/ P_SendFail \/ P_Reconnect

Spec == Init /\ [][Next]_vars

--------------------------------------------------------------------------
(* A Multiplexer object on its own: map_nibble_to_pins called with any
   nibble on either bank *)

Select(b, nibble) ==
    /\ lastSel' = [bank |-> b, nibble |-> nibble,
                   raised |-> NibbleRejected(Len(pins[b]), nibble),
                   before |-> pins[b]]
    /\ pins' = [pins EXCEPT ![b] = map_nibble_to_pins(pins[b], nibble)]
    /\ UNCHANGED <<coreVars, lastRaw>>

\* adc_iter.retrieve_data_raw() from whatever the select lines were left at
CaptureRaw ==
    /\ lastRaw' = retrieve_data_raw(pins)
    /\ pins' = ScannedPins
    /\ lastSel' = ScannedSel
    /\ UNCHANGED coreVars

NextMux ==
    \/ \E b \in Banks, nibble \in 0..MaxIndex : Select(b, nibble)
    \/ CaptureRaw

SpecMux == Init /\ [][NextMux]_vars

--------------------------------------------------------------------------
(* calibrate() and convert_retrieved_data() on their own: the zero capture
   and the raw sample are any of RawInputs *)

\* calibrate() when the scan reads the vector z
Calibrate(z) ==
    /\ mpc = "calibrate"
    /\ lastRaw' = retrieve_data_raw(pins)
    /\ pins' = ScannedPins
    /\ lastSel' = ScannedSel
    /\ zraw' = z
    /\ zero_pos' = ScaledZero(z)
    /\ mpc' = "connect"
    /\ UNCHANGED <<token, ws, heap, data, iteration_done, spc, sref, ticks, ppc,
                   temp, sent, pushed, discarded, pendingFail, lastPushLen,
                   conv, hist>>

\* convert_retrieved_data(r)
Transform(r) ==
    /\ \E c \in {convert_retrieved_data(r, zero_pos)} :
          /\ conv' = [raw |-> r, raised |-> c.raised, out |-> c.out]
          /\ zero_pos' = ZeroAfter(zero_pos, c)
    /\ UNCHANGED <<mpc, token, ws, heap, data, iteration_done, spc, sref, ticks,
                   ppc, temp, pins, lastSel, sent, pushed, discarded, pendingFail,
                   lastPushLen, lastRaw, zraw, hist>>

NextCalib ==
    \/ M_Configure
    \/ \E z \in RawInputs : Calibrate(z)
    \/ \E r \in RawInputs : Transform(r)

SpecCalib == Init /\ [][NextCalib]_vars

--------------------------------------------------------------------------
(* The two contexts that run after main(): the endless loop of
   async_data_publishing around publish_data, and the timer callback *)

PublisherStep ==
    P_Flag \/ P_Len \/ P_Take \/ P_Clear \/ P_SendOk \/ P_SendFail \/ P_Reconnect

SamplerStep ==
    S_Tick \/ S_Load \/ S_Scan \/ S_Append \/ S_SetFlag \/ S_Check \/ S_Reset

MainStep ==
    M_Configure \/ M_Calibrate \/ M_Connect \/ M_StartTimer \/ M_StartThread

\* the rest of a callback that has started
CallbackStep ==
    S_Load \/ S_Scan \/ S_Append \/ S_SetFlag \/ S_Check \/ S_Reset

\* The program running without end: the history variables are not kept, so
\* the timer can fire any number of times. main() runs on, the publisher
\* thread is scheduled again and again and a callback that has started runs
\* to its end; how often the timer fires is left open.
InitLive == Start(FALSE)

SpecLive ==
    /\ InitLive
    /\ [][Next]_vars
    /\ WF_vars(MainStep)
    /\ WF_vars(PublisherStep)
    /\ WF_vars(CallbackStep)

--------------------------------------------------------------------------
(* Properties *)

SentSamples == UNION {Elems(sent[i].batch) : i \in 1..Len(sent)}

\* samples in the list the Publisher has taken and not yet sent
InFlight == IF ppc \in {"clear", "send"} THEN Elems(heap[temp]) ELSE {}

\* C1: a drain (temp = data; data = []) never hands the Publisher fewer than
\* 3 samples, takes the whole buffer, and leaves data empty right after it.
C1_DrainIsAtomic ==
    [][(ppc = "clear" /\ ppc' = "send")
          => /\ Len(heap'[temp']) >= MinCount
             /\ Elems(heap[data]) \subseteq Elems(heap'[temp'])
             /\ heap'[data'] = <<>>]_vars

\* C2: the check, read and clear of publish_data are atomic with respect to
\* the Sampler's push: every appended sample is still buffered, is in the
\* batch being sent, was passed to send, or was discarded by the overflow
\* reset.
C2_NoSampleLost ==
    pushed \subseteq (Elems(heap[data]) \cup InFlight \cup SentSamples \cup discarded)

\* C3: when retrieve_data has returned the buffer holds at most 10 samples,
\* and it is empty if this call's push made the length exceed 10.
C3_OverflowPolicy ==
    spc = "idle" =>
        /\ Len(heap[data]) <= BufferBound
        /\ lastPushLen > BufferBound => Len(heap[data]) = 0

\* 11 pushes, no drain in between, the 11th call has returned: length 0
C3_Witness ==
    /\ spc = "idle"
    /\ ticks = BufferBound + 1
    /\ lastPushLen = BufferBound + 1
    /\ sent = <<>>
    /\ ppc = "flag"
    /\ Len(heap[data]) = 0

\* C4: after a send has raised, the connection is not Connected and the
\* Publisher does not drain the buffer again until connect_websocket has
\* been called.
C4_ReconnectBeforeDrain ==
    pendingFail =>
        /\ ws # "open"
        /\ ppc \notin {"len", "take", "clear", "send"}

\* a send failed, connect_websocket ran, and the Publisher has drained again
C4_Witness ==
    /\ \E i \in 1..Len(sent) : ~sent[i].ok
    /\ ~pendingFail
    /\ ppc = "send"

\* C5: no sample is in two messages passed to send; a batch whose send failed
\* is not sent again.
C5_AtMostOnce ==
    \A i, j \in 1..Len(sent) :
        i < j => Elems(sent[i].batch) \cap Elems(sent[j].batch) = {}

\* a non-empty batch failed, and a later message was sent after the reconnect
C5_Witness ==
    \E i, j \in 1..Len(sent) :
        /\ i < j
        /\ ~sent[i].ok
        /\ sent[i].batch # <<>>
        /\ sent[j].ok
        /\ sent[j].batch # <<>>

\* C6: send is only invoked while the connection is Connected.
C6_SendOnlyWhenConnected ==
    \A i \in 1..Len(sent) : sent[i].via = "open"

\* C7: a tick of the Sampler only runs once calibrate has filled the 22
\* entries of zero_pos, and convert_retrieved_data with an empty zero_pos
\* raises, so that nothing is appended without a zero offset.
C7_CalibratedBeforeTransform ==
    /\ spc # "idle" => Len(zero_pos) = NumChannels /\ mpc \notin {"configure", "calibrate"}
    /\ pushed # {} => Len(zero_pos) = NumChannels
    /\ ticks = Cardinality(pushed) + (IF spc \in {"load", "scan", "append"} THEN 1 ELSE 0)
    /\ \A level \in ADCLevels : convert_retrieved_data(UniformRaw(level), <<>>).raised

\* a transform has completed and its sample is about to be appended
C7_Witness ==
    /\ spc = "append"
    /\ Len(zero_pos) = NumChannels
    /\ ticks = 1

\* C8: every step of a started tick is enabled whatever the Publisher is
\* doing: the Sampler never waits for the Publisher.
C8_SamplerNeverBlocks ==
    /\ spc = "load" => ENABLED S_Load
    /\ spc = "scan" => ENABLED S_Scan
    /\ spc = "append" => ENABLED S_Append
    /\ spc = "setflag" => ENABLED S_SetFlag
    /\ spc = "check" => ENABLED S_Check
    /\ spc = "reset" => ENABLED S_Reset

\* the Sampler is about to append while the Publisher is between its read
\* and its clear of the buffer
C8_Witness ==
    /\ spc = "append"
    /\ ppc = "clear"
    /\ ENABLED S_Append

\* C9: on a bank with k select lines, map_nibble_to_pins raises for every
\* index above 2^k - 1 and then leaves the select lines as they were.
C9_RejectsOutOfRange ==
    (lastSel.bank \in Banks /\ lastSel.nibble > 2 ^ len_pins[lastSel.bank] - 1)
        => /\ lastSel.raised
           /\ pins[lastSel.bank] = lastSel.before

\* C10: after map_nibble_to_pins(i) with i below the bank's channel count,
\* the select lines read back (first line = bit 0) as i.
C10_SelectRoundTrip ==
    (lastSel.bank \in Banks /\ lastSel.nibble < a_channels[lastSel.bank])
        => /\ ~lastSel.raised
           /\ LineValue(pins[lastSel.bank]) = lastSel.nibble

\* channel 5 selected on the three-line bank
C10_Witness ==
    /\ lastSel.bank = 2
    /\ lastSel.nibble = 5
    /\ pins[2] = <<1, 0, 1>>

\* C11: retrieve_data_raw returns 22 readings, bank 1 before bank 2 and each
\* bank in ascending channel order: entry j + 1 (j < 16) was read with bank 1
\* selecting channel j, entry 17 + j with bank 2 selecting channel j.
C11_BankMajorOrder ==
    lastRaw # <<>> =>
        /\ Len(lastRaw) = a_channels[1] + a_channels[2]
        /\ Len(lastRaw) = NumChannels
        /\ \A j \in 0..a_channels[1] - 1 : lastRaw[j + 1] = [bank |-> 1, chan |-> j]
        /\ \A j \in 0..a_channels[2] - 1 :
              lastRaw[a_channels[1] + j + 1] = [bank |-> 2, chan |-> j]

\* a capture made after the select lines of both banks were left at other
\* channels; channel 0 of bank 2 is the 17th reading
C11_Witness ==
    /\ lastRaw # <<>>
    /\ lastSel.bank = 2
    /\ lastSel.nibble = a_channels[2] - 1
    /\ lastRaw[a_channels[1] + 1] = [bank |-> 2, chan |-> 0]
    /\ lastRaw[a_channels[1]] = [bank |-> 1, chan |-> a_channels[1] - 1]

\* C12: after calibrate captured z, convert_retrieved_data(r) returns
\* r[i] * f_rc - z[i] * f_rc at each of the 22 indices, that is
\* 340 * (r[i] - z[i]) / 4095 (values are numerators over 4095), and 0
\* everywhere when r = z.
C12_TransformIsScaledDifference ==
    Len(zraw) = NumChannels =>
        /\ \A r \in RawInputs : ~convert_retrieved_data(r, zero_pos).raised
        /\ (conv.raw # <<>> /\ ~conv.raised) =>
              /\ Len(conv.out) = NumChannels
              /\ \A i \in 1..NumChannels :
                    /\ conv.out[i] = conv.raw[i] * mdof - zraw[i] * mdof
                    /\ conv.out[i] = mdof * (conv.raw[i] - zraw[i])
              /\ conv.raw = zraw => \A i \in 1..NumChannels : conv.out[i] = 0

\* zero capture [100]*22, then a raw sample [100]*22: every entry is 0
C12_Witness ==
    /\ zraw = [i \in 1..NumChannels |-> 100]
    /\ conv.raw = [i \in 1..NumChannels |-> 100]
    /\ conv.out = [i \in 1..NumChannels |-> 0]

\* C13: no send failure and no connection failure stops the program: the
\* Publisher always has a next step, after a failed send that step is the
\* reconnect and it goes back to polling whether or not the connect
\* succeeded, and an idle Sampler can always tick again.
C13_NoErrorStopsTheLoop ==
    /\ ThreadRunning => ENABLED PublisherStep
    /\ pendingFail <=> ppc = "reconnect"
    /\ pendingFail => \A w \in ConnectOutcomes(ws) :
                         ENABLED (P_Reconnect /\ ws' = w /\ ppc' = "flag")
    /\ (TimerRunning /\ spc = "idle" /\ ticks < MaxTicks) => ENABLED S_Tick

\* the first connect failed, two sends raised on the unset handle with a
\* failed reconnect in between and after, the Publisher polls again and the
\* Sampler has started another tick
C13_Witness ==
    /\ Len(sent) = 2
    /\ \A i \in 1..2 : sent[i].via = "None" /\ ~sent[i].ok
    /\ ws = "None"
    /\ ppc = "flag"
    /\ ~pendingFail
    /\ spc = "load"

\* C14: every message passed to send is [token, batch]: its first element is
\* the token set during configuration and every sample of its batch has 22
\* values.
C14_MessageShape ==
    \A i \in 1..Len(sent) :
        /\ sent[i].tok = token
        /\ sent[i].tok \in Tokens
        /\ \A k \in 1..Len(sent[i].batch) : sent[i].batch[k].n = NumChannels

\* a message with at least 3 samples was sent and one more failed
C14_Witness ==
    /\ Len(sent) = 2
    /\ sent[1].ok
    /\ Len(sent[1].batch) >= MinCount
    /\ ~sent[2].ok
    /\ sent[2].batch # <<>>

\* C15: the Publisher executes temp = data and data = [] only while
\* iteration_done is True, that is never while a tick of the Sampler is
\* between clearing the flag and setting it again.
C15_NoTakeDuringScan ==
    [][((ppc = "take" /\ ppc' = "clear") \/ (ppc = "clear" /\ ppc' = "send"))
          => iteration_done]_vars

\* the buffer passes both tests of the Publisher's poll
Ready == ThreadRunning /\ iteration_done /\ Len(heap[data]) >= MinCount

\* C16 as stated: if ticks keep occurring (and the Publisher keeps being
\* scheduled), a batch is passed to send again and again.
C16_PublishesInfinitelyOften ==
    ([]<>(spc = "load")) => ([]<>(ppc = "send"))

\* C16, amended: whenever the buffer is ready, a batch is passed to send
\* unless the buffer stops being ready first (a tick clears the flag or the
\* overflow reset empties the buffer).
C16_ReadyLeadsToSend ==
    Ready ~> (ppc = "send" \/ ~Ready)

\* the Publisher found the buffer ready between two ticks and is at the send
C16_Witness ==
    /\ ~hist
    /\ ppc = "send"
    /\ Len(heap[temp]) >= MinCount
    /\ spc = "idle"
    /\ iteration_done

\* C17: a poll that finds the buffer not ready (the flag is False, or fewer
\* than 3 samples) changes nothing: the buffer, the flag, the socket handle,
\* the token and zero_pos stay as they are and nothing is sent.
C17_NotReadyPollIsPure ==
    [][((P_Flag /\ ~iteration_done) \/ (ppc = "len" /\ ppc' = "flag"))
          => UNCHANGED <<heap, data, temp, iteration_done, ws, token, zero_pos,
                         sent>>]_vars

\* the flag test has passed with 1 or 2 samples buffered, and the length test
\* is about to send the Publisher back to polling
C17_Witness ==
    /\ ppc = "len"
    /\ iteration_done
    /\ Len(heap[data]) \in 1..MinCount - 1
    /\ ENABLED (P_Len /\ ppc' = "flag")

\* C18: once the timer and the publisher thread have been started, no step
\* changes token or zero_pos; in particular the in-place conversion of a raw
\* sample leaves zero_pos as calibrate made it.
C18_SessionFrozen ==
    [][TimerRunning => (token' = token /\ zero_pos' = zero_pos)]_vars

\* samples were converted, one message was sent and one failed and was
\* followed by a reconnect; zero_pos is still the scaled zero capture
C18_Witness ==
    /\ mpc = "done"
    /\ Len(sent) = 2
    /\ sent[1].ok
    /\ ~sent[2].ok
    /\ ppc = "flag"
    /\ spc = "append"
    /\ ~conv.raised
    /\ zero_pos = ScaledZero(zraw)
    /\ Len(zero_pos) = NumChannels
    /\ token \in Tokens

\* C19: every batch passed to send holds at most 10 samples.
C19_BatchWithinBound ==
    \A i \in 1..Len(sent) : Len(sent[i].batch) <= BufferBound

\* C20: samples are sent in the order they were produced: within a batch the
\* tick numbers increase, and every sample of a later message was produced
\* after every sample of an earlier one.
C20_ProductionOrder ==
    /\ \A i \in 1..Len(sent) :
          \A k, l \in 1..Len(sent[i].batch) :
              k < l => sent[i].batch[k].id < sent[i].batch[l].id
    /\ \A i, j \in 1..Len(sent) :
          i < j => \A x \in Elems(sent[i].batch), y \in Elems(sent[j].batch) :
                      x.id < y.id

\* three messages with samples, the first with more than 3 of them, and a
\* sample that is in none of them
C20_Witness ==
    /\ Len(sent) = 3
    /\ \A i \in 1..3 : sent[i].batch # <<>>
    /\ Len(sent[1].batch) > MinCount
    /\ pushed \ SentSamples # {}

==========================================================================
